---------------------------- MODULE Spec2Model ----------------------------
(***************************************************************************)
(* SceneManager (CS-330 final project): the texture registry, the material *)
(* list, the scene set-up and the per-frame render routine, as a state     *)
(* machine.                                                                *)
(*                                                                         *)
(* Numbers.  Angles are kept in tenths of a degree (the mouse sensitivity  *)
(* 0.1f turns one pixel into one tenth of a degree), lengths and vector    *)
(* components in thousandths, colours and material scalars in hundredths,  *)
(* the clock in whole seconds.  GLSL int uniforms hold 0/1 for false/true. *)
(***************************************************************************)
EXTENDS Integers, Sequences, FiniteSets, TLC

VARIABLES
    m_loadedTextures,   \* int m_loadedTextures                (SceneManager.h:54)
    m_textureIDs,       \* TEXTURE_INFO m_textureIDs[16]       (SceneManager.h:55)
    m_objectMaterials,  \* std::vector<OBJECT_MATERIAL>        (SceneManager.h:56)
    meshes,             \* the meshes m_basicMeshes has loaded
    gl,                 \* the GL context: texture names, active unit, bindings
    shader,             \* the uniforms held by m_pShaderManager
    cam,                \* the function-local statics of RenderScene
    calls,              \* the lighting push and the draws of the last frame
    ub,                 \* "none", or what undefined behaviour has done
    ret,                \* what the last operation was given and returned
    hist,               \* the successful registrations, in order (history)
    steps               \* how many calls of each operation were made (history)

vars == <<m_loadedTextures, m_textureIDs, m_objectMaterials, meshes, gl,
          shader, cam, calls, ub, ret, hist, steps>>

(***************************************************************************)
(* Bounds of the exploration.                                              *)
(***************************************************************************)
MaxLoads == 2
MaxBadLoads == 1
MaxMaterials == 2
MaxBinds == 1
MaxPrepares == 1
MaxFrames == 3

(***************************************************************************)
(* Program constants.                                                      *)
(***************************************************************************)
MaxTextures == 16
NotFound == -1
Indeterminate == -2

Slots == 0 .. (MaxTextures - 1)

\* The tags the registry is exercised with; "" is the tag of a
\* default-constructed std::string, which every array element starts with.
Tags == {"wood", "tile", ""}

MaterialTags == {"woodMaterial", "whiteMaterial"}

\* What stbi_load can give for a file: a decoded image of 1..4 channels,
\* or no image at all.
Images == {[decoded |-> TRUE, channels |-> 1],
           [decoded |-> TRUE, channels |-> 3],
           [decoded |-> TRUE, channels |-> 4],
           [decoded |-> FALSE, channels |-> 0]}

\* m_loadedTextures is never assigned by the constructor: its first read
\* yields whatever the storage held.  Representative values: below the
\* array, zeroed storage, inside the array, past its end.
UninitCounts == {-1, 0, 1, MaxTextures + 1}

(***************************************************************************)
(* uint32_t -> int, as `textureID = m_textureIDs[index].ID` converts.      *)
(***************************************************************************)
IntMax == 2147483647
ToInt(u) == IF u > IntMax THEN ((u - IntMax) - 1) - IntMax - 1 ELSE u

(***************************************************************************)
(* The GL context.                                                         *)
(***************************************************************************)
GLInit ==
    [generated |-> 0,                       \* names handed out so far
     textures  |-> {},                      \* names currently allocated
     active    |-> 0,                       \* glActiveTexture selector
     unit      |-> [u \in Slots |-> 0],     \* GL_TEXTURE_2D binding per unit
     binds     |-> 0,                       \* glBindTexture calls made by BindGLTextures
     pixels    |-> 0]                       \* stbi image buffers not yet freed

\* glGenTextures(1, &id)
GenTexture(g) == [g EXCEPT !.generated = @ + 1, !.textures = @ \cup {g.generated + 1}]
NewName(g) == g.generated + 1

\* glBindTexture(GL_TEXTURE_2D, id): binds on the active unit
BindTexture(g, id) == [g EXCEPT !.unit[g.active] = id]

\* glActiveTexture(GL_TEXTURE0 + i); a selector past the last unit is a
\* GL_INVALID_ENUM error that leaves the selector alone
ActiveTexture(g, i) == IF i \in Slots THEN [g EXCEPT !.active = i] ELSE g

\* glDeleteTextures(1, &id): the name is released and every unit it was
\* bound to reverts to 0; 0 and names of no texture are silently ignored
DeleteTexture(g, id) ==
    [g EXCEPT !.textures = @ \ {id},
              !.unit = [u \in Slots |-> IF g.unit[u] = id /\ id \in g.textures
                                        THEN 0 ELSE g.unit[u]]]

\* What an ID that was never written can read as: the name of any texture
\* GL has handed out, or (0) a value that names none.
Junk(g) == 0 .. g.generated


(***************************************************************************)
(* The texture registry.  Its operations are written over a record         *)
(*   [n, ids, gl, ub, hist]                                                *)
(* of the members they touch, so that PrepareScene and RenderScene can     *)
(* chain them as the code does.                                            *)
(***************************************************************************)
Reg == [n |-> m_loadedTextures, ids |-> m_textureIDs, gl |-> gl, ub |-> ub,
        hist |-> hist]

\* An access m_textureIDs[i] with i outside 0..15 is undefined behaviour.
\* The outcomes kept: the process dies ("crash"), or the access lands in
\* whatever lies beside the array and execution goes on ("stray").
Wild == {"crash", "stray"}

\* CreateGLTexture(filename, tag), img being what stbi_load gives for the
\* file and wild the outcome taken if the store falls outside the array.
\* The result is [st: the registry afterwards, ok: the value returned].
CreateGLTextureOn(s, img, tag, wild) ==
    IF ~img.decoded
    THEN [st |-> s, ok |-> FALSE]
    ELSE LET id == NewName(s.gl)
             g2 == BindTexture(GenTexture(s.gl), id)
         IN  IF img.channels \notin {3, 4}
             THEN \* returns with the texture allocated and bound, the image unfreed
                  [st |-> [s EXCEPT !.gl = [g2 EXCEPT !.pixels = @ + 1]],
                   ok |-> FALSE]
             ELSE LET g3 == BindTexture(g2, 0)
                  IN  IF s.n \in Slots
                      THEN [st |-> [s EXCEPT
                                      !.gl = g3,
                                      !.ids[s.n] = [tag |-> tag, ID |-> id],
                                      !.n = s.n + 1,
                                      !.hist = Append(@, [tag |-> tag, ID |-> id])],
                            ok |-> TRUE]
                      ELSE IF wild = "crash"
                      THEN [st |-> [s EXCEPT !.gl = g3, !.ub = "crashed"],
                            ok |-> FALSE]
                      ELSE [st |-> [s EXCEPT
                                      !.gl = g3,
                                      !.ub = "executed",
                                      !.n = s.n + 1,
                                      !.hist = Append(@, [tag |-> tag, ID |-> id])],
                            ok |-> TRUE]

\* The body of the loop of BindGLTextures, from index i on.
RECURSIVE BindLoop(_, _, _, _)
BindLoop(g, ids, i, n) ==
    IF i < n
    THEN LET id == IF i \in Slots THEN ids[i].ID ELSE Indeterminate
             g1 == BindTexture(ActiveTexture(g, i), id)
         IN  BindLoop([g1 EXCEPT !.binds = @ + 1], ids, i + 1, n)
    ELSE g

\* BindGLTextures(): past the end of the array the loop reads outside it.
BindGLTexturesOn(s, wild) ==
    IF s.n <= MaxTextures
    THEN [s EXCEPT !.gl = BindLoop(s.gl, s.ids, 0, s.n)]
    ELSE IF wild = "crash"
    THEN [s EXCEPT !.gl = BindLoop(s.gl, s.ids, 0, MaxTextures), !.ub = "crashed"]
    ELSE [s EXCEPT !.gl = BindLoop(s.gl, s.ids, 0, s.n), !.ub = "executed"]

\* The body of the loop of DestroyGLTextures, from index i on; junk is what
\* an ID that was never written, or one read outside the array, reads as.
RECURSIVE DestroyLoop(_, _, _, _, _)
DestroyLoop(g, ids, i, n, junk) ==
    IF i < n
    THEN LET id == IF i \in Slots /\ ids[i].ID # Indeterminate THEN ids[i].ID ELSE junk
         IN  DestroyLoop(DeleteTexture(g, id), ids, i + 1, n, junk)
    ELSE g

\* DestroyGLTextures(): past the end of the array the loop reads outside it.
\* Neither m_loadedTextures nor m_textureIDs is written.
DestroyGLTexturesOn(s, wild, junk) ==
    IF s.n <= MaxTextures
    THEN [s EXCEPT !.gl = DestroyLoop(s.gl, s.ids, 0, s.n, junk)]
    ELSE IF wild = "crash"
    THEN [s EXCEPT !.gl = DestroyLoop(s.gl, s.ids, 0, MaxTextures, junk), !.ub = "crashed"]
    ELSE [s EXCEPT !.gl = DestroyLoop(s.gl, s.ids, 0, s.n, junk), !.ub = "executed"]

\* The while loop of FindTextureSlot from `index` on: the set of results
\* [crash, value] it can end with.  A read outside the array may kill the
\* process, compare equal, or compare unequal.
RECURSIVE FindSlotFrom(_, _, _, _)
FindSlotFrom(n, ids, tag, index) ==
    IF index < n
    THEN IF index \in Slots
         THEN IF ids[index].tag = tag
              THEN {[crash |-> FALSE, value |-> index]}
              ELSE FindSlotFrom(n, ids, tag, index + 1)
         ELSE {[crash |-> TRUE, value |-> NotFound],
               [crash |-> FALSE, value |-> index]}
              \cup FindSlotFrom(n, ids, tag, index + 1)
    ELSE {[crash |-> FALSE, value |-> NotFound]}

\* The while loop of FindTextureID, likewise.
RECURSIVE FindIDFrom(_, _, _, _)
FindIDFrom(n, ids, tag, index) ==
    IF index < n
    THEN IF index \in Slots
         THEN IF ids[index].tag = tag
              THEN {[crash |-> FALSE, value |-> ToInt(ids[index].ID)]}
              ELSE FindIDFrom(n, ids, tag, index + 1)
         ELSE {[crash |-> TRUE, value |-> NotFound],
               [crash |-> FALSE, value |-> Indeterminate]}
              \cup FindIDFrom(n, ids, tag, index + 1)
    ELSE {[crash |-> FALSE, value |-> NotFound]}

FindTextureSlot(tag) == FindSlotFrom(m_loadedTextures, m_textureIDs, tag, 0)
FindTextureID(tag) == FindIDFrom(m_loadedTextures, m_textureIDs, tag, 0)

(***************************************************************************)
(* The material list.                                                      *)
(***************************************************************************)
NoMaterial ==
    [tag |-> "", ambientColor |-> <<0, 0, 0>>, ambientStrength |-> 0,
     diffuseColor |-> <<0, 0, 0>>, specularColor |-> <<0, 0, 0>>,
     shininess |-> 0]

\* The while loop of FindMaterial from `index` on: [found, material].
RECURSIVE FindMaterialFrom(_, _, _)
FindMaterialFrom(mats, tag, index) ==
    IF index < Len(mats)
    THEN IF mats[index + 1].tag = tag
         THEN [found |-> TRUE, material |-> mats[index + 1]]
         ELSE FindMaterialFrom(mats, tag, index + 1)
    ELSE [found |-> FALSE, material |-> NoMaterial]

FindMaterialIn(mats, tag) ==
    IF mats = <<>>
    THEN [found |-> FALSE, material |-> NoMaterial]
    ELSE FindMaterialFrom(mats, tag, 0)

FindMaterial(tag) == FindMaterialIn(m_objectMaterials, tag)

(***************************************************************************)
(* Fixed-point arithmetic standing for float, glm and <cmath>.             *)
(***************************************************************************)
Abs(a) == IF a < 0 THEN -a ELSE a

\* a / b rounded to the nearest integer (b > 0)
RoundDiv(a, b) == IF a >= 0 THEN (2 * a + b) \div (2 * b)
                            ELSE -((2 * (-a) + b) \div (2 * b))

\* the product of two numbers in thousandths, in thousandths
MulK(a, b) == RoundDiv(a * b, 1000)

\* sin of an angle in tenths of a degree, in thousandths (Bhaskara's
\* rational approximation on [0, 180] degrees, odd and periodic beyond)
\*   sin x = 4 x (180 - x) / (40500 - x (180 - x)),  x in degrees
\* (numerator and denominator both divided by 4, to stay within 32 bits)
SinHalf(t) == RoundDiv(1000 * (t * (1800 - t)), (4050000 - t * (1800 - t)) \div 4)
Sin(a) == LET t == a % 3600 IN IF t <= 1800 THEN SinHalf(t) ELSE -SinHalf(t - 1800)
Cos(a) == Sin(a + 900)

\* the integer square root, by Newton's iteration from x
RECURSIVE SqrtFrom(_, _)
SqrtFrom(n, x) == LET y == (x + n \div x) \div 2 IN IF y >= x THEN x ELSE SqrtFrom(n, y)
Sqrt(n) == IF n = 0 THEN 0 ELSE SqrtFrom(n, n)

VAdd(a, b) == <<a[1] + b[1], a[2] + b[2], a[3] + b[3]>>
VSub(a, b) == <<a[1] - b[1], a[2] - b[2], a[3] - b[3]>>
\* an integer number of units times a vector in thousandths
VScale(k, a) == <<k * a[1], k * a[2], k * a[3]>>
\* glm::cross of two vectors in thousandths
Cross(a, b) == <<MulK(a[2], b[3]) - MulK(a[3], b[2]),
                 MulK(a[3], b[1]) - MulK(a[1], b[3]),
                 MulK(a[1], b[2]) - MulK(a[2], b[1])>>
\* glm::normalize
Normalize(a) ==
    LET len == Sqrt(a[1] * a[1] + a[2] * a[2] + a[3] * a[3])
    IN  <<RoundDiv(1000 * a[1], len), RoundDiv(1000 * a[2], len),
          RoundDiv(1000 * a[3], len)>>
ClampLowOnly(x, lo, hi) == IF x < lo THEN lo ELSE x

\* glm::clamp
Clamp(x, lo, hi) == IF x < lo THEN lo ELSE IF x > hi THEN hi ELSE x

PitchMin == -890
PitchMax == 890

(***************************************************************************)
(* The shader's uniforms and the setters of SceneManager.                  *)
(***************************************************************************)
MaterialParams(m) ==
    [ambientColor |-> m.ambientColor, ambientStrength |-> m.ambientStrength,
     diffuseColor |-> m.diffuseColor, specularColor |-> m.specularColor,
     shininess |-> m.shininess]

ShaderInit ==
    [model |-> [T |-> <<0, 0, 0>>, Rx |-> 0, Ry |-> 0, Rz |-> 0, S |-> <<0, 0, 0>>],
     objectColor |-> <<0, 0, 0, 0>>,
     objectTexture |-> 0,
     bUseTexture |-> 0,
     bUseLighting |-> 0,
     UVscale |-> <<0, 0>>,
     material |-> MaterialParams(NoMaterial),
     viewPos |-> <<0, 0, 0>>,
     lights |-> [set |-> FALSE],
     view |-> [set |-> FALSE],
     projection |-> [kind |-> "none"]]

\* modelView = translation * rotationX * rotationY * rotationZ * scale,
\* kept as its factors in that order
SetTransformations(sh, scaleXYZ, rx, ry, rz, positionXYZ) ==
    [sh EXCEPT !.model = [T |-> positionXYZ, Rx |-> rx, Ry |-> ry, Rz |-> rz,
                          S |-> scaleXYZ]]

SetShaderColor(sh, r, g, b, a) ==
    [sh EXCEPT !.bUseTexture = 0, !.objectColor = <<r, g, b, a>>]

\* SetShaderTexture, slot being what FindTextureSlot(textureTag) returned
SetShaderTexture(sh, slot) ==
    [sh EXCEPT !.bUseTexture = 1, !.objectTexture = slot]

SetTextureUVScale(sh, u, v) == [sh EXCEPT !.UVscale = <<u, v>>]

SetShaderMaterialReset(sh, mats, materialTag) ==
    IF mats # <<>> /\ FindMaterialIn(mats, materialTag).found
    THEN [sh EXCEPT !.material = MaterialParams(FindMaterialIn(mats, materialTag).material)]
    ELSE [sh EXCEPT !.material = MaterialParams(NoMaterial)]

SetShaderMaterial(sh, mats, materialTag) ==
    IF mats # <<>> /\ FindMaterialIn(mats, materialTag).found
    THEN [sh EXCEPT !.material = MaterialParams(FindMaterialIn(mats, materialTag).material)]
    ELSE sh

SetupSceneLights(sh, cameraPos, cameraFront) ==
    [sh EXCEPT !.lights =
        [set |-> TRUE,
         dirLight |-> [direction |-> <<-200, -1000, -100>>,
                       ambient |-> <<400, 400, 400>>,
                       diffuse |-> <<700, 700, 700>>,
                       specular |-> <<700, 700, 700>>],
         pointLight |-> [position |-> <<0, 4000, 6000>>,
                         ambient |-> <<250, 250, 250>>,
                         diffuse |-> <<750, 750, 750>>,
                         specular |-> <<1000, 1000, 1000>>,
                         constant |-> 1000, linear |-> 90, quadratic |-> 32],
         pointLight2 |-> [position |-> <<-4000, 3000, -2000>>,
                          ambient |-> <<80, 40, 20>>,
                          diffuse |-> <<300, 150, 80>>,
                          specular |-> <<400, 200, 100>>,
                          constant |-> 1000, linear |-> 140, quadratic |-> 70],
         spotLight |-> [position |-> cameraPos,
                        direction |-> cameraFront,
                        cutOff |-> Cos(100),
                        outerCutOff |-> Cos(150),
                        ambient |-> <<150, 150, 150>>,
                        diffuse |-> <<800, 800, 800>>,
                        specular |-> <<1000, 1000, 1000>>,
                        constant |-> 1000, linear |-> 90, quadratic |-> 32]]]

(***************************************************************************)
(* PrepareScene.                                                           *)
(***************************************************************************)
woodMaterial ==
    [tag |-> "woodMaterial", ambientColor |-> <<15, 8, 3>>, ambientStrength |-> 25,
     diffuseColor |-> <<50, 30, 10>>, specularColor |-> <<50, 50, 50>>,
     shininess |-> 4800]

whiteMaterial ==
    [tag |-> "whiteMaterial", ambientColor |-> <<40, 40, 40>>, ambientStrength |-> 50,
     diffuseColor |-> <<100, 100, 100>>, specularColor |-> <<120, 120, 120>>,
     shininess |-> 9600]

AllMeshes == {"plane", "cylinder", "torus"}

\* PrepareScene(), img being what stbi_load gives for Debug/wood.jpg
PrepareScene(img, wild1, wild2) ==
    /\ ub # "crashed"
    /\ LET r1 == CreateGLTextureOn(Reg, img, "wood", wild1)
           s2 == BindGLTexturesOn(r1.st, wild2)
           s  == IF r1.st.ub = "crashed" THEN r1.st ELSE s2
       IN  /\ meshes' = AllMeshes
           /\ m_loadedTextures' = s.n
           /\ m_textureIDs' = s.ids
           /\ gl' = s.gl
           /\ ub' = s.ub
           /\ hist' = s.hist
           /\ shader' = IF r1.st.ub = "crashed" THEN shader
                        ELSE SetTextureUVScale(shader, 8000, 4000)
           /\ m_objectMaterials' =
                 IF s.ub = "crashed" THEN m_objectMaterials
                 ELSE m_objectMaterials \o <<woodMaterial, whiteMaterial>>
           /\ ret' = [op |-> "PrepareScene", arg |-> img, ok |-> r1.ok]
    /\ steps' = [steps EXCEPT !.prepares = @ + 1]
    /\ UNCHANGED <<cam, calls>>

(***************************************************************************)
(* RenderScene.                                                            *)
(***************************************************************************)
CamInit ==
    [cameraPos |-> <<0, 2000, 8000>>,
     cameraFront |-> <<0, 0, -1000>>,
     cameraUp |-> <<0, 1000, 0>>,
     yaw |-> -900,
     pitch |-> 0,
     lastX |-> 400,
     lastY |-> 300,
     speed |-> 5,
     firstMouse |-> TRUE,
     perspectiveMode |-> TRUE,
     lastFrame |-> 0]

LookStepUnseeded(c, in) ==
    LET yaw == c.yaw + (in.xpos - c.lastX)
        pitch == Clamp(c.pitch + (c.lastY - in.ypos), PitchMin, PitchMax)
        front == <<MulK(Cos(yaw), Cos(pitch)), Sin(pitch), MulK(Sin(yaw), Cos(pitch))>>
    IN  [c EXCEPT !.lastFrame = in.t, !.lastX = in.xpos, !.lastY = in.ypos,
                  !.firstMouse = FALSE, !.yaw = yaw, !.pitch = pitch,
                  !.cameraFront = Normalize(front)]

\* Frame timing and mouse input: the statics after `cameraFront = ...`.
\* in.t is glfwGetTime(), in.xpos and in.ypos are glfwGetCursorPos().
LookStep(c, in) ==
    LET lastX0 == IF c.firstMouse THEN in.xpos ELSE c.lastX
        lastY0 == IF c.firstMouse THEN in.ypos ELSE c.lastY
        xoffset == in.xpos - lastX0
        yoffset == lastY0 - in.ypos
        yaw == c.yaw + xoffset
        pitch == Clamp(c.pitch + yoffset, PitchMin, PitchMax)
        front == <<MulK(Cos(yaw), Cos(pitch)), Sin(pitch), MulK(Sin(yaw), Cos(pitch))>>
    IN  [c EXCEPT !.lastFrame = in.t,
                  !.lastX = in.xpos,
                  !.lastY = in.ypos,
                  !.firstMouse = FALSE,
                  !.yaw = yaw,
                  !.pitch = pitch,
                  !.cameraFront = Normalize(front)]

\* float deltaTime = currentFrame - lastFrame, with the lastFrame of entry
DeltaTime(c, in) == in.t - c.lastFrame

\* Keyboard input: cameraPos after the six movement keys, c being the
\* statics after LookStep and adjustedSpeed = speed * deltaTime.
MoveStep(c, keys, adjustedSpeed) ==
    LET right == Normalize(Cross(c.cameraFront, c.cameraUp))
        p1 == IF "W" \in keys THEN VAdd(c.cameraPos, VScale(adjustedSpeed, c.cameraFront))
                              ELSE c.cameraPos
        p2 == IF "S" \in keys THEN VSub(p1, VScale(adjustedSpeed, c.cameraFront)) ELSE p1
        p3 == IF "A" \in keys THEN VSub(p2, VScale(adjustedSpeed, right)) ELSE p2
        p4 == IF "D" \in keys THEN VAdd(p3, VScale(adjustedSpeed, right)) ELSE p3
        p5 == IF "Q" \in keys THEN VAdd(p4, VScale(adjustedSpeed, c.cameraUp)) ELSE p4
        p6 == IF "E" \in keys THEN VSub(p5, VScale(adjustedSpeed, c.cameraUp)) ELSE p5
    IN  [c EXCEPT !.cameraPos = p6]

ToggleStepPLast(c, keys) ==
    LET m1 == IF "O" \in keys THEN FALSE ELSE c.perspectiveMode
        m2 == IF "P" \in keys THEN TRUE ELSE m1
    IN  [c EXCEPT !.perspectiveMode = m2]

\* Projection toggle
ToggleStep(c, keys) ==
    LET m1 == IF "P" \in keys THEN TRUE ELSE c.perspectiveMode
        m2 == IF "O" \in keys THEN FALSE ELSE m1
    IN  [c EXCEPT !.perspectiveMode = m2]

\* all of the statics after one frame
CameraStep(c, in) ==
    ToggleStep(MoveStep(LookStep(c, in), in.keys, c.speed * DeltaTime(c, in)), in.keys)

Projection(perspectiveMode) ==
    IF perspectiveMode
    THEN [kind |-> "perspective", fovy |-> 450, aspect |-> RoundDiv(800 * 1000, 600),
          near |-> 100, far |-> 100000]
    ELSE [kind |-> "ortho", left |-> -10000, right |-> 10000, bottom |-> -10000,
          top |-> 10000, near |-> 100, far |-> 100000]

\* glm::lookAt(cameraPos, cameraPos + cameraFront, cameraUp), by its arguments
LookAt(c) == [set |-> TRUE, eye |-> c.cameraPos,
              center |-> VAdd(c.cameraPos, c.cameraFront), up |-> c.cameraUp]

\* what a draw call of `mesh` renders with
Draw(sh, mesh) ==
    [op |-> "draw", mesh |-> mesh, model |-> sh.model,
     bUseTexture |-> sh.bUseTexture, objectTexture |-> sh.objectTexture,
     objectColor |-> sh.objectColor, material |-> sh.material]

\* The frame up to the texture lookup of the floor: [sh, log]
FrameHead(sh0, c0, c1) ==
    LET a == SetupSceneLights([sh0 EXCEPT !.viewPos = c0.cameraPos, !.bUseLighting = 1],
                              c0.cameraPos, c0.cameraFront)
        b == [a EXCEPT !.view = LookAt(c1), !.projection = Projection(c1.perspectiveMode)]
        d == SetTextureUVScale(
                 SetTransformations(b, <<20000, 1000, 10000>>, 0, 0, 0, <<0, 0, 0>>),
                 4000, 2000)
    IN  [sh  |-> [d EXCEPT !.bUseTexture = 1],
         log |-> << [op |-> "clear"],
                    [op |-> "lights", viewPos |-> a.viewPos,
                     position |-> a.lights.spotLight.position,
                     direction |-> a.lights.spotLight.direction],
                    [op |-> "camera", eye |-> c1.cameraPos, front |-> c1.cameraFront,
                     projection |-> b.projection.kind] >>]

\* The rest of the frame, slot being what FindTextureSlot("wood") returned: [sh, log]
FrameTail(h, mats, slot) ==
    LET white == <<100, 100, 100, 100>>
        s1 == SetShaderMaterial(SetShaderTexture(h.sh, slot), mats, "woodMaterial")
        e1 == Draw(s1, "plane")
        \* Mug body
        s2 == SetShaderColor(
                  SetShaderMaterial(
                      SetTransformations([s1 EXCEPT !.bUseTexture = 0],
                                         <<750, 1125, 750>>, 0, 0, 0, <<8000, 563, 0>>),
                      mats, "whiteMaterial"),
                  100, 100, 100, 100)
        e2 == Draw(s2, "cylinder")
        \* Mug rim
        s3 == SetShaderColor(
                  SetTransformations(s2, <<375, 375, 38>>, 900, 0, 0, <<8000, 1125, 0>>),
                  100, 100, 100, 100)
        e3 == Draw(s3, "torus")
        \* Mug handle
        s4 == SetShaderColor(
                  SetTransformations(s3, <<300, 300, 75>>, 0, 0, 900, <<8750, 850, 0>>),
                  100, 100, 100, 100)
        e4 == Draw(s4, "torus")
        \* Notebook
        s5 == SetShaderColor(
                  SetTransformations(s4, <<3000, 200, 2000>>, 0, 150, 0, <<-3000, 200, 1000>>),
                  10, 10, 40, 100)
        e5 == Draw(s5, "plane")
        \* Pen
        s6 == SetShaderColor(
                  SetTransformations(s5, <<100, 2000, 100>>, 900, 150, 0, <<-2800, 500, 1700>>),
                  100, 0, 0, 100)
        e6 == Draw(s6, "cylinder")
        \* Laptop base
        s7 == SetShaderColor(
                  SetTransformations(s6, <<3000, 50, 2000>>, 0, -100, 0, <<3000, 75, -2000>>),
                  75, 75, 75, 100)
        e7 == Draw(s7, "plane")
        \* Laptop screen
        s8 == SetShaderColor(
                  SetTransformations(s7, <<3000, 2000, 1000>>, -1000, 0, 0, <<3000, 1150, -2950>>),
                  20, 20, 20, 100)
        e8 == Draw(s8, "plane")
    IN  [sh |-> s8, log |-> h.log \o <<e1, e2, e3, e4, e5, e6, e7, e8>>]

\* RenderScene(); in.window is whether glfwGetCurrentContext() gave a window,
\* look the outcome of the texture lookup of the floor.
RenderScene(in, look) ==
    /\ ub # "crashed"
    /\ ret' = [op |-> "RenderScene",
               arg |-> [window |-> in.window, t |-> in.t, xpos |-> in.xpos,
                        ypos |-> in.ypos, P |-> "P" \in in.keys, O |-> "O" \in in.keys],
               ok |-> in.window /\ ~look.crash]
    /\ IF ~in.window
       THEN UNCHANGED <<shader, cam, calls, ub, steps>>
       ELSE LET c1 == CameraStep(cam, in)
                h  == FrameHead(shader, cam, c1)
                f  == FrameTail(h, m_objectMaterials, look.value)
            IN  /\ cam' = c1
                /\ shader' = IF look.crash THEN h.sh ELSE f.sh
                /\ calls' = IF look.crash THEN h.log ELSE f.log
                /\ steps' = [steps EXCEPT !.frames = @ + 1]
                /\ ub' = IF look.crash THEN "crashed"
                         ELSE IF Cardinality(FindTextureSlot("wood")) > 1 THEN "executed"
                         ELSE ub
    /\ UNCHANGED <<m_loadedTextures, m_textureIDs, m_objectMaterials, meshes, gl, hist>>

(***************************************************************************)
(* The registry operations as steps of their own.                          *)
(***************************************************************************)
CreateGLTexture(img, tag, wild) ==
    /\ ub # "crashed"
    /\ LET r == CreateGLTextureOn(Reg, img, tag, wild)
       IN  /\ m_loadedTextures' = r.st.n
           /\ m_textureIDs' = r.st.ids
           /\ gl' = r.st.gl
           /\ ub' = r.st.ub
           /\ hist' = r.st.hist
           /\ ret' = [op |-> "CreateGLTexture",
                      arg |-> [img |-> img, tag |-> tag, id |-> NewName(gl),
                               n |-> m_loadedTextures],
                      ok |-> r.ok]
    /\ steps' = [steps EXCEPT !.loads = @ + 1]
    /\ UNCHANGED <<m_objectMaterials, meshes, shader, cam, calls>>

BindGLTextures(wild) ==
    /\ ub # "crashed"
    /\ LET s == BindGLTexturesOn(Reg, wild)
       IN  /\ gl' = s.gl
           /\ ub' = s.ub
    /\ ret' = [op |-> "BindGLTextures",
               arg |-> [afterLoad |-> ret.op = "CreateGLTexture" /\ ret.ok],
               ok |-> TRUE]
    /\ steps' = [steps EXCEPT !.binds = @ + 1]
    /\ UNCHANGED <<m_loadedTextures, m_textureIDs, m_objectMaterials, meshes,
                   shader, cam, calls, hist>>

DestroyGLTextures(wild, junk) ==
    /\ ub # "crashed"
    /\ LET s == DestroyGLTexturesOn(Reg, wild, junk)
       IN  /\ m_loadedTextures' = s.n
           /\ m_textureIDs' = s.ids
           /\ gl' = s.gl
           /\ ub' = s.ub
           /\ hist' = s.hist
    /\ ret' = [op |-> "DestroyGLTextures", arg |-> [allocated |-> gl.textures], ok |-> TRUE]
    /\ UNCHANGED <<m_objectMaterials, meshes, shader, cam, calls, steps>>

\* m_objectMaterials.push_back(material)
AddMaterial(material) ==
    /\ ub # "crashed"
    /\ m_objectMaterials' = Append(m_objectMaterials, material)
    /\ ret' = [op |-> "AddMaterial", arg |-> material.tag, ok |-> TRUE]
    /\ steps' = [steps EXCEPT !.adds = @ + 1]
    /\ UNCHANGED <<m_loadedTextures, m_textureIDs, meshes, gl, shader, cam,
                   calls, ub, hist>>

(***************************************************************************)
(* The state after construction.  The constructor assigns m_pShaderManager *)
(* and m_basicMeshes only: every tag is the empty string, every ID and the *)
(* count are whatever the storage held.                                    *)
(***************************************************************************)
Init ==
    /\ m_loadedTextures \in UninitCounts
    /\ m_textureIDs = [i \in Slots |-> [tag |-> "", ID |-> Indeterminate]]
    /\ m_objectMaterials = <<>>
    /\ meshes = {}
    /\ gl = GLInit
    /\ shader = ShaderInit
    /\ cam = CamInit
    /\ calls = <<>>
    /\ ub = "none"
    /\ ret = [op |-> "SceneManager", arg |-> 0, ok |-> TRUE]
    /\ hist = <<>>
    /\ steps = [loads |-> 0, binds |-> 0, adds |-> 0, prepares |-> 0, frames |-> 0]

\* the construction in storage that held zeroes
InitZero == Init /\ m_loadedTextures = 0

(***************************************************************************)
(* The inputs.                                                             *)
(***************************************************************************)
Rgb == [decoded |-> TRUE, channels |-> 3]
Gray == [decoded |-> TRUE, channels |-> 1]
NoFile == [decoded |-> FALSE, channels |-> 0]

\* cursor positions: 900 pixels (90 degrees of yaw) and 600 pixels (60
\* degrees of pitch) from one to the next
Cursors == {<<400, 300>>, <<1300, 900>>, <<400, 1500>>}
\* seconds between two readings of the clock
ClockSteps == {2}
KeySets == {{}, {"W", "D", "Q", "P"}, {"S", "A", "E", "O"}, {"P", "O"}}
FewKeySets == {{}, {"W", "O"}}
FewCursors == {<<400, 300>>, <<1300, 900>>}

FrameInputs(keysets, cursors) ==
    {[window |-> TRUE, t |-> cam.lastFrame + d[1], xpos |-> xy[1], ypos |-> xy[2],
      keys |-> k] : d \in {<<e>> : e \in ClockSteps}, xy \in cursors, k \in keysets}
    \cup
    {[window |-> FALSE, t |-> cam.lastFrame, xpos |-> cam.lastX, ypos |-> cam.lastY,
      keys |-> {}]}

Materials == {woodMaterial, whiteMaterial, [whiteMaterial EXCEPT !.tag = "woodMaterial"]}

(***************************************************************************)
(* The specifications.                                                     *)
(*   Spec          the program: PrepareScene and RenderScene, any order    *)
(*   SpecCamera    the render loop alone, with every key                   *)
(*   SpecRegistry  the registry operations, with any tag and image         *)
(*   SpecCapacity  zeroed storage, "wood" loaded until the array is full   *)
(*   SpecZero      Spec, started in zeroed storage                         *)
(*   SpecMaterial  the program, with materials pushed at any time          *)
(*   SpecDestroy   the registry with DestroyGLTextures                     *)
(***************************************************************************)
Next ==
    \/ \E img \in {Rgb, Gray, NoFile}, w1 \in Wild, w2 \in Wild :
          /\ steps.prepares < MaxPrepares
          /\ PrepareScene(img, w1, w2)
    \/ \E in \in FrameInputs(FewKeySets, FewCursors), look \in FindTextureSlot("wood") :
          /\ steps.frames < MaxFrames
          /\ RenderScene(in, look)

Spec == Init /\ [][Next]_vars

NextCamera ==
    \E in \in FrameInputs(KeySets, Cursors), look \in FindTextureSlot("wood") :
        /\ steps.frames < MaxFrames
        /\ RenderScene(in, look)

SpecCamera == Init /\ [][NextCamera]_vars

NextRegistry ==
    \/ \E img \in Images, tag \in Tags, wild \in Wild :
          /\ steps.loads < MaxLoads
          /\ (img.decoded /\ img.channels \notin {3, 4}) => gl.pixels < MaxBadLoads
          /\ CreateGLTexture(img, tag, wild)
    \/ \E wild \in Wild :
          /\ steps.binds < MaxBinds
          /\ BindGLTextures(wild)
    \/ \E material \in Materials :
          /\ steps.adds < MaxMaterials
          /\ AddMaterial(material)

SpecRegistry == Init /\ [][NextRegistry]_vars

NextCapacity ==
    \/ \E img \in {Rgb, Gray}, wild \in Wild :
          /\ m_loadedTextures <= MaxTextures
          /\ (img = Gray) => gl.pixels < MaxBadLoads
          /\ CreateGLTexture(img, "wood", wild)
    \/ \E wild \in Wild :
          /\ steps.binds < MaxBinds
          /\ BindGLTextures(wild)

SpecCapacity == InitZero /\ [][NextCapacity]_vars

\* the program in zeroed storage
SpecZero == InitZero /\ [][Next]_vars

\* the program with materials of any tag pushed besides those of PrepareScene
NextMaterial ==
    \/ \E material \in {woodMaterial, whiteMaterial} :
          /\ steps.adds < MaxMaterials
          /\ AddMaterial(material)
    \/ \E img \in {Rgb, NoFile}, w1 \in Wild, w2 \in Wild :
          /\ steps.prepares < MaxPrepares
          /\ PrepareScene(img, w1, w2)
    \/ \E in \in FrameInputs({{}}, {<<400, 300>>}), look \in FindTextureSlot("wood") :
          /\ steps.frames < MaxFrames
          /\ RenderScene(in, look)

SpecMaterial == Init /\ [][NextMaterial]_vars

\* the registry with its teardown: loads, binds and DestroyGLTextures
NextDestroy ==
    \/ \E img \in {Rgb, Gray}, tag \in Tags, wild \in Wild :
          /\ steps.loads < MaxLoads
          /\ (img = Gray) => gl.pixels < MaxBadLoads
          /\ CreateGLTexture(img, tag, wild)
    \/ \E wild \in Wild :
          /\ steps.binds < MaxBinds
          /\ BindGLTextures(wild)
    \/ \E wild \in Wild, junk \in Junk(gl) :
          DestroyGLTextures(wild, junk)

SpecDestroy == Init /\ [][NextDestroy]_vars

\* the same in zeroed storage
SpecDestroyZero == InitZero /\ [][NextDestroy]_vars

(***************************************************************************)
(* The claims.                                                             *)
(***************************************************************************)
Last(q) == q[Len(q)]
Decodable34(img) == img.decoded /\ img.channels \in {3, 4}
Found(v) == {[crash |-> FALSE, value |-> v]}
LoadStep == steps'.loads = steps.loads + 1
FrameStep == steps'.frames = steps.frames + 1
\* the indices of hist that registered `tag`
Registered(tag) == {i \in 1 .. Len(hist) : hist[i].tag = tag}
First(S) == CHOOSE i \in S : \A j \in S : i <= j

\* C1: a CreateGLTexture of a decodable 3- or 4-channel image with tag t
\* returns true and appends one entry; after BindGLTextures,
\* FindTextureSlot(t) is the unit that just-loaded texture is bound to, its
\* load-order index, and FindTextureID(t) is its handle.
C1_LoadThenFind ==
    /\ (ret.op = "CreateGLTexture" /\ Decodable34(ret.arg.img)) =>
          /\ ret.ok
          /\ ub = "none"
          /\ hist # <<>>
          /\ Last(hist) = [tag |-> ret.arg.tag, ID |-> ret.arg.id]
          /\ m_loadedTextures = Len(hist)
          /\ m_textureIDs[Len(hist) - 1] = Last(hist)
    /\ (ret.op = "BindGLTextures" /\ ret.arg.afterLoad) =>
          /\ ub = "none"
          /\ FindTextureSlot(Last(hist).tag) = Found(Len(hist) - 1)
          /\ gl.unit[Len(hist) - 1] = Last(hist).ID
          /\ FindTextureID(Last(hist).tag) = Found(Last(hist).ID)

\* C2: a CreateGLTexture of a decoded image whose channel count is neither
\* 3 nor 4 returns false and changes nothing: the count and the entries stay
\* as they were, and the texture object it generated is neither allocated
\* nor bound afterwards.
C2_BadChannelsNoSideEffects ==
    [][(LoadStep /\ ret'.arg.img.decoded /\ ret'.arg.img.channels \notin {3, 4}) =>
          /\ ~ret'.ok
          /\ UNCHANGED <<m_loadedTextures, m_textureIDs, hist>>
          /\ ret'.arg.id \notin gl'.textures
          /\ \A u \in Slots : gl'.unit[u] # ret'.arg.id]_vars

\* C3: the registry never holds more than 16 entries: a CreateGLTexture
\* made when 16 are registered returns false and registers nothing.
C3_CapacityNeverExceeded ==
    /\ m_loadedTextures <= MaxTextures
    /\ Len(hist) <= MaxTextures
    /\ (ret.op = "CreateGLTexture" /\ ret.arg.n = MaxTextures) =>
          (~ret.ok /\ ub = "none" /\ m_loadedTextures = MaxTextures)

\* C4: for a tag never registered FindTextureSlot and FindTextureID return
\* -1 and FindMaterial returns false, from construction on; for a tag
\* registered more than once they return the entry registered first.
C4_NotFoundAndFirstMatch ==
    /\ \A tag \in Tags :
          IF Registered(tag) = {}
          THEN /\ FindTextureSlot(tag) = Found(NotFound)
               /\ FindTextureID(tag) = Found(NotFound)
          ELSE /\ FindTextureSlot(tag) = Found(First(Registered(tag)) - 1)
               /\ FindTextureID(tag) = Found(hist[First(Registered(tag))].ID)
    /\ \A tag \in MaterialTags :
          LET added == {i \in 1 .. Len(m_objectMaterials) : m_objectMaterials[i].tag = tag}
          IN  IF added = {}
              THEN ~FindMaterial(tag).found
              ELSE /\ FindMaterial(tag).found
                   /\ FindMaterial(tag).material = m_objectMaterials[First(added)]

\* C5: at the end of every frame the pitch lies in [-89, 89] degrees, and a
\* vertical cursor delta that would take it past a bound leaves it exactly
\* at that bound.
C5_PitchClamped ==
    /\ [](cam.pitch >= PitchMin /\ cam.pitch <= PitchMax)
    /\ [][FrameStep =>
            LET raw == cam.pitch + ((IF cam.firstMouse THEN ret'.arg.ypos ELSE cam.lastY)
                                    - ret'.arg.ypos)
            IN  /\ raw > PitchMax => cam'.pitch = PitchMax
                /\ raw < PitchMin => cam'.pitch = PitchMin
                /\ (raw >= PitchMin /\ raw <= PitchMax) => cam'.pitch = raw]_vars

\* the third frame ended with the pitch pinned at +89 degrees, the cursor
\* having gone up to the top position
C5_Witness ==
    /\ steps.frames = 3
    /\ ret.op = "RenderScene"
    /\ ret.arg.ypos = 300
    /\ cam.pitch = PitchMax

\* C6: in the first frame, whatever the cursor reads, yaw and pitch keep
\* their initial values -90 and 0, the last cursor position becomes the
\* reading and firstMouse is cleared; from the second frame on the yaw moves
\* by the horizontal cursor delta.
C6_FirstFrameNoRotation ==
    /\ [](cam.firstMouse => (steps.frames = 0 /\ cam.yaw = -900 /\ cam.pitch = 0))
    /\ [][FrameStep =>
            /\ cam'.lastX = ret'.arg.xpos
            /\ cam'.lastY = ret'.arg.ypos
            /\ ~cam'.firstMouse
            /\ IF steps.frames = 0
               THEN /\ cam.firstMouse
                    /\ cam'.yaw = -900
                    /\ cam'.pitch = 0
                    /\ cam'.cameraFront = cam.cameraFront
               ELSE /\ ~cam.firstMouse
                    /\ cam'.yaw = cam.yaw + (ret'.arg.xpos - cam.lastX)]_vars

\* the first frame read the cursor 900 pixels right of the initial lastX
C6_Witness ==
    /\ steps.frames = 1
    /\ ret.op = "RenderScene"
    /\ ret.arg.xpos = 1300
    /\ cam.lastX = 1300
    /\ cam.yaw = -900
    /\ ~cam.firstMouse

\* C7: in the first frame the elapsed time is zero, so no held movement key
\* changes the camera position, whatever the clock reads.
C7_FirstFrameZeroDelta ==
    [][(FrameStep /\ steps.frames = 0) => cam'.cameraPos = cam.cameraPos]_vars

\* C8: the projection pushed in a frame is orthographic if O is held (also
\* when P is held too), perspective if only P is held, and otherwise that of
\* the mode the previous frame left, which is perspective at the start.
C8_ProjectionLastWriteWins ==
    /\ [](steps.frames = 0 => cam.perspectiveMode)
    /\ [][FrameStep =>
            /\ shader'.projection = Projection(cam'.perspectiveMode)
            /\ calls'[3].projection = shader'.projection.kind
            /\ shader'.projection.kind =
                  IF ret'.arg.O THEN "ortho"
                  ELSE IF ret'.arg.P THEN "perspective"
                  ELSE IF cam.perspectiveMode THEN "perspective" ELSE "ortho"]_vars

\* a frame with both P and O held pushed the orthographic projection
C8_Witness ==
    /\ ret.op = "RenderScene"
    /\ ret.arg.window
    /\ ret.arg.P
    /\ ret.arg.O
    /\ shader.projection.kind = "ortho"

DrawOrder == <<"plane", "cylinder", "torus", "torus", "plane", "cylinder", "plane", "plane">>
IsDraw(e) == e.op = "draw"
Draws == SelectSeq(calls, IsDraw)

\* C9: after a PrepareScene whose texture loaded, every frame pushes the
\* lights before any draw and then makes exactly the eight draws floor,
\* mug body, rim, handle, notebook, pen, laptop base, laptop screen; one
\* PrepareScene and one frame make exactly one texture bind.
C9_FrameAfterPrepare ==
    (hist # <<>> /\ ret.op = "RenderScene" /\ ret.arg.window) =>
        /\ ub = "none"
        /\ \E i \in 1 .. Len(calls) :
              /\ calls[i].op = "lights"
              /\ \A j \in 1 .. Len(calls) : calls[j].op = "draw" => i < j
        /\ [i \in 1 .. Len(Draws) |-> Draws[i].mesh] = DrawOrder
        /\ (steps.prepares = 1 /\ steps.frames = 1) => gl.binds = 1

\* C10: when the wood texture does not load, PrepareScene still registers
\* both materials and no texture entry, and in every later frame the floor
\* is drawn untextured: bUseTexture is false at its draw call and no -1 is
\* pushed as the sampler.
C10_MissingTextureUntextured ==
    /\ (ret.op = "PrepareScene" /\ ~ret.ok /\ steps.prepares = 1) =>
          /\ FindMaterial("woodMaterial").found
          /\ FindMaterial("whiteMaterial").found
          /\ FindTextureSlot("wood") = Found(NotFound)
    /\ (ret.op = "RenderScene" /\ ret.arg.window /\ steps.prepares = 1 /\ hist = <<>>) =>
          /\ Draws # <<>>
          /\ Draws[1].mesh = "plane"
          /\ Draws[1].bUseTexture = 0
          /\ Draws[1].objectTexture # NotFound
          /\ shader.objectTexture # NotFound

DestroyStep == ret'.op = "DestroyGLTextures"

\* C11: DestroyGLTextures releases the handle of every registered entry and
\* leaves the count and the tag/handle entries as they were, so that
\* FindTextureSlot and FindTextureID return for every tag what they returned
\* before it.
C11_DestroyKeepsEntries ==
    [][DestroyStep =>
          /\ ub' = ub
          /\ UNCHANGED <<m_loadedTextures, m_textureIDs, hist>>
          /\ \A i \in 1 .. Len(hist) : hist[i].ID \notin gl'.textures
          /\ \A tag \in Tags :
                /\ FindTextureSlot(tag)' = FindTextureSlot(tag)
                /\ FindTextureID(tag)' = FindTextureID(tag)]_vars

\* C12: in every frame the viewPos and the spotlight position and direction
\* pushed to the shader equal the camera position and front that the same
\* frame's view matrix is built from.
C12_SpotlightTracksCamera ==
    (ret.op = "RenderScene" /\ ret.arg.window) =>
        /\ calls[2].op = "lights"
        /\ calls[3].op = "camera"
        /\ shader.view.eye = calls[3].eye
        /\ shader.viewPos = shader.view.eye
        /\ shader.lights.spotLight.position = shader.view.eye
        /\ shader.lights.spotLight.direction = calls[3].front
        /\ calls[2].viewPos = calls[3].eye
        /\ calls[2].position = calls[3].eye
        /\ calls[2].direction = calls[3].front

\* C13: the material in the shader carries over between draw calls.  After
\* PrepareScene every frame draws the floor with woodMaterial and each of the
\* seven objects after it with whiteMaterial, only the floor and the mug body
\* setting a material; SetShaderMaterial with a tag that is not registered
\* leaves the material as it was.
C13_MaterialCarriesOver ==
    /\ []((ret.op = "RenderScene" /\ ret.ok /\ steps.prepares >= 1 /\ steps.adds = 0) =>
            /\ Len(Draws) = 8
            /\ Draws[1].material = MaterialParams(woodMaterial)
            /\ \A i \in 2 .. 8 : Draws[i].material = MaterialParams(whiteMaterial))
    /\ [][(FrameStep /\ ret'.ok) =>
            /\ Len(Draws') = 8
            /\ ~FindMaterial("woodMaterial").found => Draws'[1].material = shader.material
            /\ ~FindMaterial("whiteMaterial").found => Draws'[2].material = Draws'[1].material
            /\ \A i \in 3 .. 8 : Draws'[i].material = Draws'[2].material
            /\ shader'.material = Draws'[8].material]_vars

\* a frame after PrepareScene drew the floor with woodMaterial and the
\* laptop screen with whiteMaterial
C13_Witness ==
    /\ ret.op = "RenderScene"
    /\ ret.ok
    /\ steps.prepares = 1
    /\ steps.adds = 0
    /\ Len(Draws) = 8
    /\ Draws[1].material = MaterialParams(woodMaterial)
    /\ Draws[8].material = MaterialParams(whiteMaterial)

=============================================================================
